---- MODULE Spec2Model ----
(***************************************************************************)
(* Keystroke stream of lib/keystroke.c: the byte-driven parser that turns  *)
(* raw terminal input (characters, ESC X, CSI sequences, Telnet IAC        *)
(* commands) into keystroke records held in a byte FIFO, the fetch of      *)
(* those records, and the stealing of one keystroke by the caller.         *)
(***************************************************************************)
EXTENDS Integers, Sequences, FiniteSets, TLC

VARIABLES stream,   \* struct keystroke_stream
          slot,     \* the caller's keystroke passed as 'steal' to the last call
          stroke,   \* the caller's keystroke filled by the last keystroke_get
          ret,      \* what the last keystroke_get returned
          call,     \* the last call made: its name and arguments
          stole,    \* the last keystroke_input wrote a keystroke to 'steal'
          aborted,  \* "" or the zabort/assert that stopped the program
          junk,     \* the byte the caller's uninitialised structures hold
          fed,      \* every byte the stream has accepted so far, in order
          got,      \* every keystroke fetched so far, in order
          nfed,     \* number of bytes passed to keystroke_input so far
          neof,     \* number of EOF signals passed to keystroke_input so far
          eof_seen  \* keystroke_get has returned a null keystroke of value knull_eof

vars == <<stream, slot, stroke, ret, call, stole, aborted, junk, fed, got, nfed,
          neof, eof_seen>>

----------------------------------------------------------------------------
(* Bounds of the model *)

\* keystroke_max_len of keystroke.h, the capacity of in.raw and of
\* keystroke.buf, scaled down so that truncation is reached by short inputs
keystroke_max_len == 2
\* total number of bytes passed to keystroke_input in one behaviour
MaxInput == 4
\* the same, in the behaviours that feed bytes and fetch, without stealing
MaxInputB == 6
\* longest chunk passed to one keystroke_input call
MaxChunk == 2
\* number of EOF signals passed to keystroke_input in one behaviour
MaxEof == 2

----------------------------------------------------------------------------
(* Byte values and encodings *)

tn_IAC == 255
tn_SE  == 240
tn_SB  == 250
tn_WILL == 251
ESC    == 27
LBRACKET == 91

kf_compound  == 128
kf_broken    == 32
kf_truncated == 16
kf_type_mask == 15

ks_null == 0
ks_char == 1
ks_esc  == 2
ks_csi  == 3
ks_iac  == 4

knull_not_eof == 0
knull_eof     == 1

\* 0x9B, the usual single-byte CSI
CSI_9B == 155

----------------------------------------------------------------------------
(* struct keystroke_state, struct keystroke_stream, struct keystroke *)

ZeroRaw == [i \in 1..keystroke_max_len |-> 0]

keystroke_state == [state |-> "kst_null", len |-> 0, raw |-> ZeroRaw]

\* raw[i] = u, i counted from 0 as in the code: a write at an index past
\* the array shows as elements past keystroke_max_len
raw_write(raw, i, u) ==
  IF i < keystroke_max_len
    THEN [raw EXCEPT ![i + 1] = u]
    ELSE [j \in 1..(i + 1) |->
            IF j = i + 1 THEN u ELSE IF j \in DOMAIN raw THEN raw[j] ELSE 0]

keystroke_stream_new(csi_char) ==
  [fifo       |-> <<>>,
   CSI        |-> IF csi_char # 0 THEN csi_char ELSE ESC,
   eof_met    |-> FALSE,
   steal_this |-> FALSE,
   iac        |-> FALSE,
   in         |-> keystroke_state,
   pushed_in  |-> keystroke_state]

\* A keystroke structure the caller has not initialised: every field holds
\* whatever was in memory.  'past' stands for the memory that follows buf.
\* the number of bytes of the buf of a keystroke structure
keystroke_buf_size == keystroke_max_len

UninitKeystroke(j) ==
  [type  |-> j % 16,
   value |-> j,
   flags |-> j,
   len   |-> j,
   buf   |-> [i \in 1..keystroke_buf_size |-> j],
   past  |-> <<>>]

----------------------------------------------------------------------------
(* Control operations *)

keystroke_stream_empty(s) == s.fifo = <<>>

keystroke_stream_eof(s) == s.fifo = <<>> /\ s.eof_met

\* keystroke_stream_set_eof that leaves stream->iac as it is
keystroke_stream_set_eof_keeps_iac(s) ==
  [s EXCEPT !.fifo = <<>>,
            !.eof_met = TRUE,
            !.steal_this = FALSE,
            !.in.state = "kst_null",
            !.pushed_in.state = "kst_null"]

keystroke_stream_set_eof(s) ==
  [s EXCEPT !.fifo = <<>>,
            !.eof_met = TRUE,
            !.steal_this = FALSE,
            !.iac = FALSE,
            !.in.state = "kst_null",
            !.pushed_in.state = "kst_null"]

----------------------------------------------------------------------------
(* Functions to support keystroke_input *)

\* keystroke_add_raw without the test of in.len
\* keystroke_add_raw leaving in.len as it was
keystroke_add_raw_nocount(s, u) ==
  IF s.in.len < keystroke_max_len
    THEN [s EXCEPT !.in.raw = raw_write(@, s.in.len, u)]
    ELSE s

keystroke_add_raw_always(s, u) ==
  [s EXCEPT !.in.raw = raw_write(@, s.in.len, u), !.in.len = @ + 1]

keystroke_add_raw(s, u) ==
  LET s1 == IF s.in.len < keystroke_max_len
              THEN [s EXCEPT !.in.raw = raw_write(@, s.in.len, u)]
              ELSE s
  IN [s1 EXCEPT !.in.len = @ + 1]

\* keystroke_put without the clamp of len to keystroke_max_len
keystroke_put_noclamp(s, type, broken, p, len) ==
  LET first == kf_compound + (IF broken THEN kf_broken ELSE 0) + type
      l     == IF len > Len(p) THEN Len(p) ELSE len
  IN [s EXCEPT !.fifo = @ \o <<first, len>> \o SubSeq(p, 1, l)]

\* p is the memory at the pointer passed, len the length passed
keystroke_put(s, type, broken, p, len) ==
  LET trunc == len > keystroke_max_len
      l     == IF trunc THEN keystroke_max_len ELSE len
      first == kf_compound + (IF broken THEN kf_broken ELSE 0)
                           + (IF trunc THEN kf_truncated ELSE 0) + type
  IN [s EXCEPT !.fifo = @ \o <<first, l>> \o SubSeq(p, 1, l)]

\* keystroke_put_char storing every value as one byte
keystroke_put_char_byte(s, u) == [s EXCEPT !.fifo = Append(@, u)]

keystroke_put_char(s, u) ==
  IF u < 128
    THEN [s EXCEPT !.fifo = Append(@, u)]
    ELSE keystroke_put(s, ks_char, FALSE, <<u>>, 1)

keystroke_put_esc(s, u, len) == keystroke_put(s, ks_esc, len = 0, <<u>>, len)

keystroke_put_csi(s, u) == keystroke_put(s, ks_csi, u = 0, s.in.raw, s.in.len)

keystroke_put_iac(s, u, len) == keystroke_put(s, ks_iac, len = 0, <<u>>, len)

\* keystroke_put_iac_long leaving stream->pushed_in.state as it was
keystroke_put_iac_long_keeps_pushed(s, broken) ==
  LET s1 == keystroke_put(s, ks_iac, broken, s.in.raw, s.in.len)
  IN [s1 EXCEPT !.in = s.pushed_in]

\* keystroke_put_iac_long without the pop of stream->pushed_in
keystroke_put_iac_long_nopop(s, broken) ==
  LET s1 == keystroke_put(s, ks_iac, broken, s.in.raw, s.in.len)
  IN [s1 EXCEPT !.in.state = "kst_null", !.pushed_in.state = "kst_null"]

keystroke_put_iac_long(s, broken) ==
  LET s1 == keystroke_put(s, ks_iac, broken, s.in.raw, s.in.len)
  IN [s1 EXCEPT !.in = s.pushed_in, !.pushed_in.state = "kst_null"]

\* keystroke_set_null that says knull_eof whatever stream->eof_met is
keystroke_set_null_eof(s, k) ==
  [k EXCEPT !.type = ks_null, !.value = knull_eof, !.flags = 0, !.len = 0]

\* keystroke_set_null that takes no account of stream->eof_met
keystroke_set_null_not_eof(s, k) ==
  [k EXCEPT !.type = ks_null, !.value = knull_not_eof, !.flags = 0, !.len = 0]

keystroke_set_null(s, k) ==
  [k EXCEPT !.type  = ks_null,
            !.value = IF s.eof_met THEN knull_eof ELSE knull_not_eof,
            !.flags = 0,
            !.len   = 0]

keystroke_steal_char(k, s, u) ==
  [k EXCEPT !.type = ks_char, !.value = u, !.flags = 0, !.len = 1, !.buf[1] = u]

keystroke_steal_esc(k, s, u) ==
  [k EXCEPT !.type = ks_esc, !.value = u, !.flags = 0, !.len = 1, !.buf[1] = u]

\* memcpy(steal->buf, in.raw, len - 1) ; steal->buf[len] = '\0' : the C index
\* len is position len + 1 here, and lies past the buffer when len is
\* keystroke_max_len; past keeps the C indexes written past the buffer
keystroke_steal_csi(k, s, u) ==
  LET len == s.in.len
      k1  == [k EXCEPT !.type = ks_esc, !.value = u, !.flags = 0, !.len = len - 1,
                       !.buf = [i \in 1..keystroke_buf_size |->
                                  IF i <= len - 1 THEN s.in.raw[i] ELSE @[i]]]
  IN IF len + 1 <= keystroke_buf_size
       THEN [k1 EXCEPT !.buf[len + 1] = 0]
       ELSE [k1 EXCEPT !.past = Append(@, len)]

----------------------------------------------------------------------------
(* keystroke_input: the locals of one call are a frame                     *)
(*   stream, ptr (next position of the chunk), steal (steal != NULL),      *)
(*   slot (what steal points at), stole, abort                             *)

Abort(F, why) == [F EXCEPT !.abort = why]

\* the same arm, a two byte command ending the sequence it interrupts
keystroke_input_iac_drops(F, u) ==
  LET s  == [F.stream EXCEPT !.iac = FALSE]
      st == s.in.state
  IN CASE st \in {"kst_null", "kst_esc", "kst_csi"} ->
            IF u < tn_SB
              THEN [F EXCEPT !.stream =
                      [keystroke_put_iac(s, u, 1) EXCEPT !.in.state = "kst_null"]]
              ELSE [F EXCEPT !.stream =
                      [s EXCEPT !.pushed_in = s.in,
                                !.in = [state |-> "kst_iac_option",
                                        len   |-> 1,
                                        raw   |-> raw_write(s.in.raw, 0, u)]]]
       [] st = "kst_iac_sub" ->
            IF u # tn_SE
              THEN [F EXCEPT !.ptr = @ - 1,
                             !.stream = keystroke_put_iac_long(
                                          [s EXCEPT !.iac = TRUE], TRUE)]
              ELSE [F EXCEPT !.stream = keystroke_put_iac_long(s, FALSE)]
       [] OTHER -> Abort(F, "impossible keystroke stream state")

\* the same arm, a subnegotiation that IAC X cuts short not marked broken
keystroke_input_iac_unbroken(F, u) ==
  LET s  == [F.stream EXCEPT !.iac = FALSE]
      st == s.in.state
  IN CASE st \in {"kst_null", "kst_esc", "kst_csi"} ->
            IF u < tn_SB
              THEN [F EXCEPT !.stream = keystroke_put_iac(s, u, 1)]
              ELSE [F EXCEPT !.stream =
                      [s EXCEPT !.pushed_in = s.in,
                                !.in = [state |-> "kst_iac_option",
                                        len   |-> 1,
                                        raw   |-> raw_write(s.in.raw, 0, u)]]]
       [] st = "kst_iac_sub" ->
            IF s.in.raw[1] # tn_SB
              THEN Abort(F, "assert raw[0] == tn_SB")
              ELSE IF u # tn_SE
                     THEN [F EXCEPT !.ptr = @ - 1,
                                    !.stream = keystroke_put_iac_long(
                                                 [s EXCEPT !.iac = TRUE], FALSE)]
                     ELSE [F EXCEPT !.stream = keystroke_put_iac_long(s, FALSE)]
       [] OTHER -> Abort(F, "impossible keystroke stream state")

\* the same arm, starting a long command with in.len left at 0
keystroke_input_iac_len0(F, u) ==
  LET s  == [F.stream EXCEPT !.iac = FALSE]
      st == s.in.state
  IN CASE st \in {"kst_null", "kst_esc", "kst_csi"} ->
            IF u < tn_SB
              THEN [F EXCEPT !.stream = keystroke_put_iac(s, u, 1)]
              ELSE [F EXCEPT !.stream =
                      [s EXCEPT !.pushed_in = s.in,
                                !.in = [state |-> "kst_iac_option",
                                        len   |-> 0,
                                        raw   |-> raw_write(s.in.raw, 0, u)]]]
       [] st = "kst_iac_sub" ->
            IF s.in.raw[1] # tn_SB
              THEN Abort(F, "assert raw[0] == tn_SB")
              ELSE IF u # tn_SE
                     THEN [F EXCEPT !.ptr = @ - 1,
                                    !.stream = keystroke_put_iac_long(
                                                 [s EXCEPT !.iac = TRUE], TRUE)]
                     ELSE [F EXCEPT !.stream = keystroke_put_iac_long(s, FALSE)]
       [] OTHER -> Abort(F, "impossible keystroke stream state")

\* the arm taken when stream->iac is set after the escape check
keystroke_input_iac(F, u) ==
  LET s  == [F.stream EXCEPT !.iac = FALSE]
      st == s.in.state
  IN CASE st \in {"kst_null", "kst_esc", "kst_csi"} ->
            IF u < tn_SB
              THEN [F EXCEPT !.stream = keystroke_put_iac(s, u, 1)]
              ELSE [F EXCEPT !.stream =
                      [s EXCEPT !.pushed_in = s.in,
                                !.in = [state |-> "kst_iac_option",
                                        len   |-> 1,
                                        raw   |-> raw_write(s.in.raw, 0, u)]]]
       [] st = "kst_iac_sub" ->
            IF s.in.raw[1] # tn_SB
              THEN Abort(F, "assert raw[0] == tn_SB")
              ELSE IF u # tn_SE
                     THEN [F EXCEPT !.ptr = @ - 1,
                                    !.stream = keystroke_put_iac_long(
                                                 [s EXCEPT !.iac = TRUE], TRUE)]
                     ELSE [F EXCEPT !.stream = keystroke_put_iac_long(s, FALSE)]
       [] OTHER -> Abort(F, "impossible keystroke stream state")

\* case kst_null, the CSI byte leaving in.len as it was
keystroke_input_null_keeps_len(F, u) ==
  LET s == [F.stream EXCEPT !.steal_this = F.steal]
  IN IF u = ESC
       THEN [F EXCEPT !.stream = [s EXCEPT !.in.state = "kst_esc"]]
     ELSE IF u = s.CSI
       THEN [F EXCEPT !.stream = [s EXCEPT !.in.state = "kst_csi"]]
     ELSE IF ~s.steal_this
       THEN [F EXCEPT !.stream = [keystroke_put_char(s, u) EXCEPT !.in.state = "kst_null"]]
     ELSE [F EXCEPT !.slot   = keystroke_steal_char(F.slot, s, u),
                    !.stream = [s EXCEPT !.steal_this = FALSE, !.in.state = "kst_null"],
                    !.steal  = FALSE,
                    !.stole  = TRUE]

\* case kst_null of the normal dispatch
keystroke_input_null_skip(F, u) ==
  LET s == [F.stream EXCEPT !.steal_this = F.steal]
  IN IF u = ESC
       THEN [F EXCEPT !.stream = [s EXCEPT !.in.state = "kst_esc"]]
     ELSE IF u = s.CSI
       THEN [F EXCEPT !.stream = [s EXCEPT !.in.len = 0, !.in.state = "kst_csi"]]
     ELSE IF ~s.steal_this
       THEN [F EXCEPT !.stream = [keystroke_put_char(s, u) EXCEPT !.in.state = "kst_null"]]
     ELSE [F EXCEPT !.slot   = keystroke_steal_char(F.slot, s, u),
                    !.stream = [s EXCEPT !.steal_this = FALSE, !.in.state = "kst_null"],
                    !.ptr    = @ + 1,
                    !.steal  = FALSE,
                    !.stole  = TRUE]

\* case kst_null of the normal dispatch
keystroke_input_null(F, u) ==
  LET s == [F.stream EXCEPT !.steal_this = F.steal]
  IN IF u = ESC
       THEN [F EXCEPT !.stream = [s EXCEPT !.in.state = "kst_esc"]]
     ELSE IF u = s.CSI
       THEN [F EXCEPT !.stream = [s EXCEPT !.in.len = 0, !.in.state = "kst_csi"]]
     ELSE IF ~s.steal_this
       THEN [F EXCEPT !.stream = [keystroke_put_char(s, u) EXCEPT !.in.state = "kst_null"]]
     ELSE [F EXCEPT !.slot   = keystroke_steal_char(F.slot, s, u),
                    !.stream = [s EXCEPT !.steal_this = FALSE, !.in.state = "kst_null"],
                    !.steal  = FALSE,
                    !.stole  = TRUE]

\* case kst_esc, the stolen ESC X going to the FIFO as well
keystroke_input_esc_both(F, u) ==
  LET s == F.stream
  IN IF u = LBRACKET
       THEN [F EXCEPT !.stream = [s EXCEPT !.in.len = 0, !.in.state = "kst_csi"]]
     ELSE IF ~s.steal_this
       THEN [F EXCEPT !.stream = [keystroke_put_esc(s, u, 1) EXCEPT !.in.state = "kst_null"]]
     ELSE [F EXCEPT !.slot   = keystroke_steal_esc(F.slot, s, u),
                    !.stream = [keystroke_put_esc(s, u, 1) EXCEPT
                                  !.steal_this = FALSE, !.in.state = "kst_null"],
                    !.steal  = FALSE,
                    !.stole  = TRUE]

\* case kst_esc of the normal dispatch
keystroke_input_esc(F, u) ==
  LET s == F.stream
  IN IF u = LBRACKET
       THEN [F EXCEPT !.stream = [s EXCEPT !.in.len = 0, !.in.state = "kst_csi"]]
     ELSE IF ~s.steal_this
       THEN [F EXCEPT !.stream = [keystroke_put_esc(s, u, 1) EXCEPT !.in.state = "kst_null"]]
     ELSE [F EXCEPT !.slot   = keystroke_steal_esc(F.slot, s, u),
                    !.stream = [s EXCEPT !.steal_this = FALSE, !.in.state = "kst_null"],
                    !.steal  = FALSE,
                    !.stole  = TRUE]

\* case kst_csi, the byte that breaks the sequence not put back
keystroke_input_csi_eats(F, u) ==
  LET s == F.stream
  IN IF u >= 32 /\ u <= 63
       THEN [F EXCEPT !.stream = keystroke_add_raw(s, u)]
     ELSE
       LET duff == u < 64 \/ u > 127
           u1   == IF duff THEN 0 ELSE u
           l0   == s.in.len
           over == l0 >= keystroke_max_len
           l    == IF over THEN keystroke_max_len - 1 ELSE l0
           ok   == ~duff /\ ~over
           s2   == [s EXCEPT !.in.len = @ + 1, !.in.raw = raw_write(@, l, u1)]
       IN IF ~s2.steal_this \/ ~ok
            THEN [F EXCEPT !.stream = [keystroke_put_csi(s2, u1) EXCEPT !.in.state = "kst_null"]]
            ELSE [F EXCEPT !.slot   = keystroke_steal_csi(F.slot, s2, u1),
                           !.stream = [s2 EXCEPT !.steal_this = FALSE,
                                                 !.in.state = "kst_null"],
                           !.steal  = FALSE,
                           !.stole  = TRUE]

\* case kst_csi, the terminator planted only where there is room for it
keystroke_input_csi_noplant(F, u) ==
  LET s == F.stream
  IN IF u >= 32 /\ u <= 63
       THEN [F EXCEPT !.stream = keystroke_add_raw(s, u)]
     ELSE
       LET duff == u < 64 \/ u > 127
           F1   == IF duff THEN [F EXCEPT !.ptr = @ - 1] ELSE F
           s1   == IF duff THEN [s EXCEPT !.iac = (u = tn_IAC)] ELSE s
           u1   == IF duff THEN 0 ELSE u
           l0   == s1.in.len
           over == l0 >= keystroke_max_len
           ok   == ~duff /\ ~over
           s2   == IF over THEN [s1 EXCEPT !.in.len = @ + 1]
                           ELSE [s1 EXCEPT !.in.len = @ + 1,
                                           !.in.raw = raw_write(@, l0, u1)]
       IN IF ~s2.steal_this \/ ~ok
            THEN [F1 EXCEPT !.stream = [keystroke_put_csi(s2, u1) EXCEPT !.in.state = "kst_null"]]
            ELSE [F1 EXCEPT !.slot   = keystroke_steal_csi(F.slot, s2, u1),
                            !.stream = [s2 EXCEPT !.steal_this = FALSE,
                                                  !.in.state = "kst_null"],
                            !.steal  = FALSE,
                            !.stole  = TRUE]

\* case kst_csi, stealing whether or not the sequence is ok
keystroke_input_csi_any(F, u) ==
  LET s == F.stream
  IN IF u >= 32 /\ u <= 63
       THEN [F EXCEPT !.stream = keystroke_add_raw(s, u)]
     ELSE
       LET duff == u < 64 \/ u > 127
           F1   == IF duff THEN [F EXCEPT !.ptr = @ - 1] ELSE F
           s1   == IF duff THEN [s EXCEPT !.iac = (u = tn_IAC)] ELSE s
           u1   == IF duff THEN 0 ELSE u
           l0   == s1.in.len
           over == l0 >= keystroke_max_len
           l    == IF over THEN keystroke_max_len - 1 ELSE l0
           s2   == [s1 EXCEPT !.in.len = @ + 1, !.in.raw = raw_write(@, l, u1)]
       IN IF ~s2.steal_this
            THEN [F1 EXCEPT !.stream = [keystroke_put_csi(s2, u1) EXCEPT !.in.state = "kst_null"]]
            ELSE [F1 EXCEPT !.slot   = keystroke_steal_csi(F.slot, s2, u1),
                            !.stream = [s2 EXCEPT !.steal_this = FALSE,
                                                  !.in.state = "kst_null"],
                            !.steal  = FALSE,
                            !.stole  = TRUE]

\* case kst_csi of the normal dispatch
\* the same arm, giving up the steal when it refuses a keystroke
keystroke_input_csi_refuse_clears(F, u) ==
  LET s == F.stream
  IN IF u >= 32 /\ u <= 63
       THEN [F EXCEPT !.stream = keystroke_add_raw(s, u)]
     ELSE
       LET duff == u < 64 \/ u > 127
           F1   == IF duff THEN [F EXCEPT !.ptr = @ - 1] ELSE F
           s1   == IF duff THEN [s EXCEPT !.iac = (u = tn_IAC)] ELSE s
           u1   == IF duff THEN 0 ELSE u
           l0   == s1.in.len
           over == l0 >= keystroke_max_len
           l    == IF over THEN keystroke_max_len - 1 ELSE l0
           ok   == ~duff /\ ~over
           s2   == [s1 EXCEPT !.in.len = @ + 1, !.in.raw = raw_write(@, l, u1)]
       IN IF ~s2.steal_this \/ ~ok
            THEN [F1 EXCEPT !.stream = [keystroke_put_csi(s2, u1) EXCEPT
                                          !.in.state = "kst_null"],
                            !.steal  = FALSE]
            ELSE IF s2.in.len > keystroke_max_len
                   THEN Abort(F1, "assert len <= keystroke_max_len")
                   ELSE [F1 EXCEPT !.slot   = keystroke_steal_csi(F.slot, s2, u1),
                                   !.stream = [s2 EXCEPT !.steal_this = FALSE,
                                                         !.in.state = "kst_null"],
                                   !.steal  = FALSE,
                                   !.stole  = TRUE]

keystroke_input_csi(F, u) ==
  LET s == F.stream
  IN IF u >= 32 /\ u <= 63
       THEN [F EXCEPT !.stream = keystroke_add_raw(s, u)]
     ELSE
       LET duff == u < 64 \/ u > 127
           F1   == IF duff THEN [F EXCEPT !.ptr = @ - 1] ELSE F
           s1   == IF duff THEN [s EXCEPT !.iac = (u = tn_IAC)] ELSE s
           u1   == IF duff THEN 0 ELSE u
           l0   == s1.in.len
           over == l0 >= keystroke_max_len
           l    == IF over THEN keystroke_max_len - 1 ELSE l0
           ok   == ~duff /\ ~over
           s2   == [s1 EXCEPT !.in.len = @ + 1, !.in.raw = raw_write(@, l, u1)]
       IN IF ~s2.steal_this \/ ~ok
            THEN [F1 EXCEPT !.stream = [keystroke_put_csi(s2, u1) EXCEPT !.in.state = "kst_null"]]
            ELSE IF s2.in.len > keystroke_max_len
                   THEN Abort(F1, "assert len <= keystroke_max_len")
                   ELSE [F1 EXCEPT !.slot   = keystroke_steal_csi(F.slot, s2, u1),
                                   !.stream = [s2 EXCEPT !.steal_this = FALSE,
                                                         !.in.state = "kst_null"],
                                   !.steal  = FALSE,
                                   !.stole  = TRUE]

\* case kst_iac_option of the normal dispatch
keystroke_input_iac_option(F, u) ==
  LET s == F.stream
  IN IF s.in.len # 1
       THEN Abort(F, "assert in.len == 1")
       ELSE LET s1 == keystroke_add_raw(s, u)
            IN IF s1.in.raw[1] = tn_SB
                 THEN [F EXCEPT !.stream = [s1 EXCEPT !.in.state = "kst_iac_sub"]]
                 ELSE [F EXCEPT !.stream = keystroke_put_iac_long(s1, FALSE)]

\* case kst_iac_sub of the normal dispatch
\* the same arm, stepping over the byte after the one it keeps
keystroke_input_iac_sub_skip(F, u) ==
  IF F.stream.in.raw[1] # tn_SB
    THEN Abort(F, "assert raw[0] == tn_SB")
    ELSE [F EXCEPT !.ptr = @ + 1, !.stream = keystroke_add_raw(F.stream, u)]

keystroke_input_iac_sub(F, u) ==
  IF F.stream.in.raw[1] # tn_SB
    THEN Abort(F, "assert raw[0] == tn_SB")
    ELSE [F EXCEPT !.stream = keystroke_add_raw(F.stream, u)]

\* one turn of the loop  while (ptr < end)
\* the step with the IAC test applied to the option byte as well
keystroke_input_byte_option_iac(F, chunk) ==
  LET u  == chunk[F.ptr]
      F1 == [F EXCEPT !.ptr = @ + 1]
      s  == F.stream
      isIac == u = tn_IAC
  IN IF isIac /\ ~s.iac
       THEN [F1 EXCEPT !.stream.iac = TRUE]
       ELSE LET F2 == IF isIac THEN [F1 EXCEPT !.stream.iac = FALSE] ELSE F1
                st == F2.stream.in.state
            IN IF F2.stream.iac
                 THEN keystroke_input_iac(F2, u)
                 ELSE CASE st = "kst_null"       -> keystroke_input_null(F2, u)
                        [] st = "kst_esc"        -> keystroke_input_esc(F2, u)
                        [] st = "kst_csi"        -> keystroke_input_csi(F2, u)
                        [] st = "kst_iac_option" -> keystroke_input_iac_option(F2, u)
                        [] st = "kst_iac_sub"    -> keystroke_input_iac_sub(F2, u)
                        [] OTHER -> Abort(F2, "impossible keystroke stream state")

keystroke_input_byte(F, chunk) ==
  LET u  == chunk[F.ptr]
      F1 == [F EXCEPT !.ptr = @ + 1]
      s  == F.stream
      isIac == u = tn_IAC /\ s.in.state # "kst_iac_option"
  IN IF isIac /\ ~s.iac
       THEN [F1 EXCEPT !.stream.iac = TRUE]
       ELSE LET F2 == IF isIac THEN [F1 EXCEPT !.stream.iac = FALSE] ELSE F1
                st == F2.stream.in.state
            IN IF F2.stream.iac
                 THEN keystroke_input_iac(F2, u)
                 ELSE CASE st = "kst_null"       -> keystroke_input_null(F2, u)
                        [] st = "kst_esc"        -> keystroke_input_esc(F2, u)
                        [] st = "kst_csi"        -> keystroke_input_csi(F2, u)
                        [] st = "kst_iac_option" -> keystroke_input_iac_option(F2, u)
                        [] st = "kst_iac_sub"    -> keystroke_input_iac_sub(F2, u)
                        [] OTHER -> Abort(F2, "impossible keystroke stream state")

RECURSIVE keystroke_input_loop(_, _, _)
keystroke_input_loop(F, chunk, len) ==
  IF F.ptr > len \/ F.abort # ""
    THEN F
    ELSE keystroke_input_loop(keystroke_input_byte(F, chunk), chunk, len)

\* the EOF branch flushing what is being collected, once and not in a loop
keystroke_input_eof_once(s) ==
  CASE s.in.state = "kst_null" -> s
    [] s.in.state = "kst_esc" ->
         [keystroke_put_esc(s, 0, 0) EXCEPT !.in.state = "kst_null"]
    [] s.in.state = "kst_csi" ->
         [keystroke_put_csi(s, 0) EXCEPT !.in.state = "kst_null"]
    [] s.in.state \in {"kst_iac_option", "kst_iac_sub"} ->
         keystroke_put_iac_long(s, TRUE)
    [] OTHER -> [s EXCEPT !.in.state = "zabort"]

\* the loop  while (stream->in.state != kst_null)  of the EOF branch;
\* the result is the stream, or a string naming the zabort reached
RECURSIVE keystroke_input_eof_loop(_)
keystroke_input_eof_loop(s) ==
  CASE s.in.state = "kst_null" -> s
    [] s.in.state = "kst_esc" ->
         keystroke_input_eof_loop(
           [keystroke_put_esc(s, 0, 0) EXCEPT !.in.state = "kst_null"])
    [] s.in.state = "kst_csi" ->
         keystroke_input_eof_loop(
           [keystroke_put_csi(s, 0) EXCEPT !.in.state = "kst_null"])
    [] s.in.state \in {"kst_iac_option", "kst_iac_sub"} ->
         keystroke_input_eof_loop(keystroke_put_iac_long(s, TRUE))
    [] OTHER -> [s EXCEPT !.in.state = "zabort"]

\* the number of times the loop of the EOF branch goes round
RECURSIVE keystroke_input_eof_passes(_)
keystroke_input_eof_passes(s) ==
  IF s.in.state \in {"kst_null", "zabort"}
    THEN 0
    ELSE 1 + keystroke_input_eof_passes(keystroke_input_eof_once(s))

\* the EOF branch going round its loop once only
keystroke_input_eof_one_pass(s) ==
  LET s1 == [s EXCEPT !.eof_met = TRUE, !.steal_this = FALSE]
      s2 == IF s1.iac /\ s1.in.state = "kst_null"
              THEN keystroke_put_iac(s1, 0, 0)
              ELSE s1
  IN keystroke_input_eof_once(s2)

\* the branch  if ((len == 0) && (ptr == NULL))
keystroke_input_eof(s) ==
  LET s1 == [s EXCEPT !.eof_met = TRUE, !.steal_this = FALSE]
      s2 == IF s1.iac /\ s1.in.state = "kst_null"
              THEN keystroke_put_iac(s1, 0, 0)
              ELSE s1
  IN keystroke_input_eof_loop(s2)

\* the update of the stealing state, tidying stream->iac away as well
keystroke_input_steal_state_iac(s, steal) ==
  IF ~steal
    THEN [s EXCEPT !.steal_this = FALSE, !.iac = FALSE]
    ELSE [s EXCEPT !.steal_this = (s.in.state = "kst_null"), !.iac = FALSE]

\* "Update the stealing state"
\* the update of the stealing state, whatever is partly received
keystroke_input_steal_state_always(s, steal) ==
  [s EXCEPT !.steal_this = steal]

keystroke_input_steal_state(s, steal) ==
  IF ~steal
    THEN [s EXCEPT !.steal_this = FALSE]
    ELSE [s EXCEPT !.steal_this = (s.in.state = "kst_null")]

\* the byte loop again, keeping in reads the index of each byte as it is
\* fetched by  u = *ptr++ ; it gives up once reads is longer than 2 * len
RECURSIVE keystroke_input_reads(_, _, _, _)
keystroke_input_reads(F, chunk, len, reads) ==
  IF F.ptr > len \/ F.abort # "" \/ Len(reads) > 2 * len
    THEN [frame |-> F, reads |-> reads]
    ELSE keystroke_input_reads(keystroke_input_byte(F, chunk), chunk, len,
                               Append(reads, F.ptr))

\* the byte loop of a call that is not the EOF call, with its reads
keystroke_input_trace(s, chunk, steal, k) ==
  LET s2  == keystroke_input_steal_state(s, steal)
      len == IF s2.eof_met THEN 0 ELSE Len(chunk)
      F0  == [stream |-> s2, ptr |-> 1, steal |-> steal, slot |-> k,
              stole |-> FALSE, abort |-> ""]
  IN keystroke_input_reads(F0, chunk, len, <<>>)

\* keystroke_input(stream, ptr, len, steal): chunk holds the len bytes at ptr,
\* eof is (len == 0 && ptr == NULL), steal is (steal != NULL), k is *steal.
\* The result is the frame at return.
keystroke_input(s, chunk, eof, steal, k) ==
  LET s1  == IF eof THEN keystroke_input_eof(s) ELSE s
      bad == s1.in.state = "zabort"
      s2  == keystroke_input_steal_state(s1, steal)
      len == IF s2.eof_met THEN 0 ELSE Len(chunk)
      F0  == [stream |-> s2, ptr |-> 1, steal |-> steal, slot |-> k,
              stole |-> FALSE, abort |-> ""]
      F   == IF bad
               THEN [F0 EXCEPT !.stream = s1,
                               !.abort = "impossible keystroke stream state"]
               ELSE keystroke_input_loop(F0, chunk, len)
  IN IF F.abort = "" /\ F.steal
       THEN [F EXCEPT !.slot = keystroke_set_null(F.stream, F.slot)]
       ELSE F

----------------------------------------------------------------------------
(* keystroke_get *)

\* the value of a well-formed character: its bytes in network order
RECURSIVE CharValue(_, _)
CharValue(v, bytes) ==
  IF bytes = <<>> THEN v ELSE CharValue(v * 256 + Head(bytes), Tail(bytes))

\* keystroke_get(stream, stroke): k is *stroke as the caller passed it.
\* The result holds the stream, the keystroke, the value returned and the
\* abort reached, if any.
keystroke_get(s, k) ==
  IF s.fifo = <<>>
    THEN [stream |-> s, stroke |-> keystroke_set_null(s, k), ret |-> 0, abort |-> ""]
  ELSE
    LET b == Head(s.fifo)
        r == Tail(s.fifo)
    IN IF b < kf_compound
         THEN [stream |-> [s EXCEPT !.fifo = r],
               stroke |-> [k EXCEPT !.type = ks_char, !.value = b, !.flags = 0,
                                    !.len = 1, !.buf[1] = b],
               ret |-> 1, abort |-> ""]
       ELSE IF r = <<>> \/ Len(r) < 1 + Head(r)
         THEN [stream |-> [s EXCEPT !.fifo = <<>>], stroke |-> k, ret |-> 1,
               abort |-> "passert(b >= 0)"]
       ELSE IF Head(r) > keystroke_max_len
         THEN [stream |-> s, stroke |-> k, ret |-> 1,
               abort |-> "stroke->buf overrun"]
       ELSE
         LET type  == b % 16
             flags == ((b \div 16) % 4) * 16
             len   == Head(r)
             bytes == SubSeq(r, 2, 1 + len)
             rest  == SubSeq(r, 2 + len, Len(r))
             buf0  == [i \in 1..keystroke_max_len |->
                         IF i <= len THEN bytes[i] ELSE k.buf[i]]
             k0    == [k EXCEPT !.type = type, !.value = 0, !.flags = flags,
                                !.len = len, !.buf = buf0]
             s1    == [s EXCEPT !.fifo = rest]
             done(kk, why) == [stream |-> s1, stroke |-> kk, ret |-> 1, abort |-> why]
         IN CASE type = ks_null -> done(k0, "ks_null found in FIFO")
              [] type = ks_char ->
                   IF flags = 0
                     THEN IF len > 0 /\ len <= 4
                            THEN done([k0 EXCEPT !.value = CharValue(0, bytes)], "")
                            ELSE done(k0, "assert char len")
                     ELSE done(k0, "")
              [] type = ks_esc ->
                   IF len = 1 THEN done([k0 EXCEPT !.value = bytes[1]], "")
                   ELSE IF len = 0 THEN done(k0, "")
                   ELSE done(k0, "assert esc len == 0")
              [] type = ks_csi ->
                   IF len # 0
                     THEN done([k0 EXCEPT !.value = bytes[len], !.len = len - 1,
                                          !.buf[len] = 0], "")
                     ELSE done([k0 EXCEPT !.buf[1] = 0], "")
              [] type = ks_iac ->
                   IF len > 0 THEN done([k0 EXCEPT !.value = bytes[1]], "")
                              ELSE done(k0, "")
              [] OTHER -> done(k0, "unknown keystroke type")

\* A keystroke as its reader sees it: the fields and the len bytes of buf
Event(k) == [type |-> k.type, value |-> k.value, flags |-> k.flags,
             len |-> k.len, buf |-> [i \in 1..k.len |-> k.buf[i]]]

\* The keystrokes keystroke_get returns, in order, until the FIFO is empty
RECURSIVE Drain(_)
Drain(s) ==
  IF s.fifo = <<>>
    THEN <<>>
    ELSE LET g == keystroke_get(s, UninitKeystroke(0))
         IN IF g.abort # "" THEN <<[type |-> "abort"]>>
            ELSE <<Event(g.stroke)>> \o Drain(g.stream)

----------------------------------------------------------------------------
(* The program: a caller that creates one stream and then calls            *)
(* keystroke_input, keystroke_get and keystroke_stream_set_eof.            *)

\* bytes the caller feeds: one of each class the parser tells apart
Bytes == {ESC, LBRACKET, 51, CSI_9B, tn_SE, tn_SB, tn_WILL, tn_IAC}

Chunks(alphabet, n) == UNION {[1..k -> alphabet] : k \in 0..n}

JunkBytes == {170}

\* the caller has passed no keystroke structure to the last call
NoKeystroke == [type |-> "none"]

\* the state after keystroke_stream_new(c), c one of csis
InitWith(csis) ==
  /\ \E c \in csis : stream = keystroke_stream_new(c)
  /\ junk \in JunkBytes
  /\ slot = NoKeystroke
  /\ stroke = NoKeystroke
  /\ ret = 0
  /\ call = [op |-> "new", chunk |-> <<>>, steal |-> FALSE]
  /\ stole = FALSE
  /\ aborted = ""
  /\ fed = <<>>
  /\ got = <<>>
  /\ nfed = 0
  /\ neof = 0
  /\ eof_seen = FALSE

Init == InitWith({0, CSI_9B})

\* keystroke_input(stream, chunk, Len(chunk), steal ? &slot : NULL)
Input(chunk, steal, track, max) ==
  /\ aborted = ""
  /\ nfed + Len(chunk) <= max
  /\ LET F == keystroke_input(stream, chunk, FALSE, steal, UninitKeystroke(junk))
     IN /\ stream' = F.stream
        /\ slot' = IF steal THEN F.slot ELSE NoKeystroke
        /\ stole' = F.stole
        /\ aborted' = F.abort
  /\ call' = [op |-> "input", chunk |-> chunk, steal |-> steal]
  /\ nfed' = nfed + Len(chunk)
  /\ fed' = IF track /\ ~stream.eof_met THEN fed \o chunk ELSE fed
  /\ stroke' = NoKeystroke
  /\ ret' = 0
  /\ UNCHANGED <<junk, got, neof, eof_seen>>

\* keystroke_input(stream, NULL, 0, steal ? &slot : NULL)
InputEof(steal) ==
  /\ aborted = ""
  /\ neof < MaxEof
  /\ neof' = neof + 1
  /\ LET F == keystroke_input(stream, <<>>, TRUE, steal, UninitKeystroke(junk))
     IN /\ stream' = F.stream
        /\ slot' = IF steal THEN F.slot ELSE NoKeystroke
        /\ stole' = F.stole
        /\ aborted' = F.abort
  /\ call' = [op |-> "eof", chunk |-> <<>>, steal |-> steal]
  /\ stroke' = NoKeystroke
  /\ ret' = 0
  /\ UNCHANGED <<junk, fed, got, nfed, eof_seen>>

\* keystroke_get(stream, &stroke)
Get(track) ==
  /\ aborted = ""
  /\ LET g == keystroke_get(stream, UninitKeystroke(junk))
     IN /\ stream' = g.stream
        /\ stroke' = g.stroke
        /\ ret' = g.ret
        /\ aborted' = g.abort
        /\ got' = IF track /\ g.ret = 1 /\ g.abort = ""
                    THEN Append(got, Event(g.stroke)) ELSE got
        /\ eof_seen' = (eof_seen \/ (g.stroke.type = ks_null /\ g.stroke.value = knull_eof))
  /\ call' = [op |-> "get", chunk |-> <<>>, steal |-> FALSE]
  /\ slot' = NoKeystroke
  /\ stole' = FALSE
  /\ UNCHANGED <<junk, fed, nfed, neof>>

\* keystroke_stream_set_eof(stream)
SetEof ==
  /\ aborted = ""
  /\ stream' = keystroke_stream_set_eof(stream)
  /\ call' = [op |-> "set_eof", chunk |-> <<>>, steal |-> FALSE]
  /\ slot' = NoKeystroke
  /\ stroke' = NoKeystroke
  /\ ret' = 0
  /\ stole' = FALSE
  /\ UNCHANGED <<aborted, junk, fed, got, nfed, neof, eof_seen>>

Next ==
  \/ \E chunk \in Chunks(Bytes, MaxChunk), steal \in BOOLEAN :
        Input(chunk, steal, FALSE, MaxInput)
  \/ \E steal \in BOOLEAN : InputEof(steal)
  \/ Get(FALSE)
  \/ SetEof

Spec == Init /\ [][Next]_vars

\* A caller that feeds bytes without stealing, signals EOF once, then fetches;
\* fed and got record what went in and what came out.
BytesB == {ESC, LBRACKET, 51, tn_SE, tn_SB, tn_WILL, tn_IAC}

InitB == InitWith({0})

NextB ==
  \/ \E chunk \in Chunks(BytesB, MaxChunk) \ {<<>>} :
        neof = 0 /\ Input(chunk, FALSE, TRUE, MaxInputB)
  \/ neof = 0 /\ InputEof(FALSE)
  \/ neof > 0 /\ Get(TRUE)

SpecB == InitB /\ [][NextB]_vars

----------------------------------------------------------------------------
(* Properties *)

\* a byte sequence is a concatenation of complete keystroke records
RECURSIVE FifoRecords(_)
FifoRecords(f) ==
  IF f = <<>> THEN TRUE
  ELSE IF Head(f) < kf_compound THEN FifoRecords(Tail(f))
  ELSE /\ (Head(f) \div 64) % 2 = 0
       /\ Head(f) % 16 \in {ks_char, ks_esc, ks_csi, ks_iac}
       /\ Len(f) >= 2
       /\ f[2] \in 0..keystroke_max_len
       /\ Len(f) >= 2 + f[2]
       /\ FifoRecords(SubSeq(f, 3 + f[2], Len(f)))

\* C2: after any sequence of keystroke_input, keystroke_get and
\* keystroke_stream_set_eof calls the FIFO is a concatenation of complete
\* records (a byte 0x00..0x7F, or a header with bit 7 set, bit 6 clear and
\* type char, esc, csi or iac, a length 0..keystroke_max_len and that many
\* bytes), and keystroke_get never runs out of bytes inside a record.
C2_FifoRecordIntegrity ==
  /\ FifoRecords(stream.fifo)
  /\ aborted \notin {"passert(b >= 0)", "stroke->buf overrun", "ks_null found in FIFO",
                     "unknown keystroke type"}

\* C2 witness: keystroke_get has just read a compound record off a FIFO
\* that holds a further compound record
C2_Witness ==
  /\ call.op = "get"
  /\ stroke.type = ks_csi
  /\ stroke.flags = kf_broken
  /\ stream.fifo # <<>>
  /\ Head(stream.fifo) >= kf_compound

----------------------------------------------------------------------------
(* Feeding in chunks against feeding at once *)

\* the stream after keystroke_input(new stream, B, Len(B), NULL), followed
\* by the EOF signal when eof
FedAtOnce(csi, B, eof) ==
  LET s1 == keystroke_input(keystroke_stream_new(csi), B, FALSE, FALSE, NoKeystroke).stream
  IN IF eof THEN keystroke_input(s1, <<>>, TRUE, FALSE, NoKeystroke).stream ELSE s1

\* the keystrokes fetched so far followed by those still to be fetched
AllEvents == got \o Drain(stream)

\* C1: feeding B in any chunks and then signalling EOF leaves the same
\* keystrokes to be fetched as feeding B in one call and then signalling EOF.
C1_ChunkInvariance ==
  neof > 0 => AllEvents = Drain(FedAtOnce(stream.CSI, fed, TRUE))

\* C1 witness: a CSI sequence holding a Telnet command was fed in more than
\* two calls, EOF was signalled and the keystrokes were fetched
C1_Witness ==
  /\ neof > 0
  /\ Len(fed) >= 5
  /\ SubSeq(fed, 1, 3) = <<ESC, LBRACKET, tn_IAC>>
  /\ Len(got) = 2
  /\ got[1].type = ks_iac
  /\ got[2].type = ks_csi
  /\ stream.fifo = <<>>

----------------------------------------------------------------------------
(* Telnet commands are invisible to the other keystrokes *)

\* B[i..] is the data of a subnegotiation: the position after its closing
\* IAC SE; 0 when B ends first; -j when an IAC X, X not IAC or SE, stands at j
RECURSIVE SubnegEnd(_, _)
SubnegEnd(B, i) ==
  IF i > Len(B) THEN 0
  ELSE IF B[i] # tn_IAC THEN SubnegEnd(B, i + 1)
  ELSE IF i = Len(B) THEN 0
  ELSE IF B[i + 1] = tn_IAC THEN SubnegEnd(B, i + 2)
  ELSE IF B[i + 1] = tn_SE THEN i + 2
  ELSE 0 - i

\* B[i..] with every well-formed Telnet command cut out (IAC X with X < SB,
\* IAC X O with X in 251..254, IAC SB O ... IAC SE), IAC IAC kept;
\* malformed: some subnegotiation holds an IAC X; incomplete: B ends inside
\* a command
RECURSIVE Excise(_, _)
Excise(B, i) ==
  LET keep(n, r) == [r EXCEPT !.out = SubSeq(B, i, i + n - 1) \o @]
      tail       == [out |-> SubSeq(B, i, Len(B)), malformed |-> FALSE,
                     incomplete |-> TRUE]
  IN IF i > Len(B)
       THEN [out |-> <<>>, malformed |-> FALSE, incomplete |-> FALSE]
     ELSE IF B[i] # tn_IAC THEN keep(1, Excise(B, i + 1))
     ELSE IF i = Len(B) THEN tail
     ELSE IF B[i + 1] = tn_IAC THEN keep(2, Excise(B, i + 2))
     ELSE IF B[i + 1] < tn_SB THEN Excise(B, i + 2)
     ELSE IF i + 2 > Len(B) THEN tail
     ELSE IF B[i + 1] # tn_SB THEN Excise(B, i + 3)
     ELSE LET e == SubnegEnd(B, i + 3)
          IN IF e > 0 THEN Excise(B, e)
             ELSE IF e = 0 THEN tail
             ELSE [keep(0 - e - i, Excise(B, 0 - e)) EXCEPT !.malformed = TRUE]

FilterIac(evs) == SelectSeq(evs, LAMBDA e : e.type # ks_iac)

\* the keystrokes of fed without the iac ones are the keystrokes of fed
\* with its well-formed Telnet commands cut out
IacTransparent ==
  FilterIac(AllEvents) = Drain(FedAtOnce(stream.CSI, Excise(fed, 1).out, neof > 0))

\* C3 as stated: for every input B, the keystrokes fetched for B with all
\* iac keystrokes removed are the keystrokes fetched for B with every
\* well-formed Telnet command cut out.  Read in the claim's favour: the iac
\* keystrokes that the commands left in B produce are removed as well.
C3_IacTransparency_Original ==
  FilterIac(AllEvents) =
    FilterIac(Drain(FedAtOnce(stream.CSI, Excise(fed, 1).out, neof > 0)))

\* C3 amended: the same, for every input B in which no subnegotiation is cut
\* short by an IAC X (X neither IAC nor SE) and, once EOF has been
\* signalled, no Telnet command is left incomplete at the end of B.
C3_IacTransparency ==
  LET x == Excise(fed, 1)
  IN (~x.malformed /\ (neof > 0 => ~x.incomplete)) => IacTransparent

\* C3 witness: a well-formed Telnet command inside a CSI sequence was cut
\* out, and the iac and the csi keystroke were both fetched
C3_Witness ==
  LET x == Excise(fed, 1)
  IN /\ ~x.malformed /\ ~x.incomplete
     /\ Len(fed) >= 3
     /\ SubSeq(fed, 1, 3) = <<ESC, LBRACKET, tn_IAC>>
     /\ x.out = <<ESC, LBRACKET, LBRACKET>>
     /\ Len(got) = 2
     /\ got[1].type = ks_iac
     /\ got[2].type = ks_csi
     /\ got[2].flags = 0

----------------------------------------------------------------------------
(* A Telnet command inside an ESC or CSI sequence *)

\* the keystrokes a call has added to those waiting to be fetched
Added(pre, post) ==
  LET a == Drain(pre)
      b == Drain(post)
  IN IF Len(b) >= Len(a) /\ SubSeq(b, 1, Len(a)) = a
       THEN SubSeq(b, Len(a) + 1, Len(b))
       ELSE <<[type |-> "lost"]>>

\* the byte u completes a well-formed Telnet command that interrupts the
\* ESC or CSI sequence s is collecting
CompletesInside(s, u) ==
  \/ s.in.state \in {"kst_esc", "kst_csi"} /\ s.iac /\ u < tn_SB
  \/ /\ s.pushed_in.state \in {"kst_esc", "kst_csi"}
     /\ \/ s.in.state = "kst_iac_option" /\ s.in.raw[1] # tn_SB
        \/ s.in.state = "kst_iac_sub" /\ s.iac /\ u = tn_SE

\* the sequence that such a command interrupts
Interrupted(s) ==
  IF s.in.state \in {"kst_esc", "kst_csi"} THEN s.in ELSE s.pushed_in

\* the byte u ends the ESC or CSI sequence s is collecting
TerminatesSequence(s, u) ==
  /\ ~s.iac
  /\ \/ s.in.state = "kst_esc" /\ u \notin {LBRACKET, tn_IAC}
     \/ s.in.state = "kst_csi" /\ u >= 64 /\ u <= 127

\* C4: a Telnet command completed while an ESC or CSI sequence is in
\* progress is enqueued at once, as an iac keystroke, the sequence staying
\* in progress as it was; the sequence's own keystroke is enqueued, after
\* it, by the byte that terminates the sequence.
C4_IacBeforeInterrupted ==
  [][(call'.op = "input" /\ Len(call'.chunk) = 1) =>
       LET u   == call'.chunk[1]
           new == Added(stream, stream')
       IN /\ CompletesInside(stream, u) =>
               /\ Len(new) = 1
               /\ new[1].type = ks_iac
               /\ new[1].flags \in {0, kf_truncated}
               /\ stream'.in = Interrupted(stream)
               /\ stream'.pushed_in.state = "kst_null"
               /\ ~stream'.iac
          /\ TerminatesSequence(stream, u) =>
               /\ Len(new) = 1
               /\ new[1].type = (IF stream.in.state = "kst_esc" THEN ks_esc ELSE ks_csi)
               /\ new[1].value = u
               /\ stream'.in.state = "kst_null"
     ]_vars

\* C4 witness: ESC [ was followed by a Telnet command and then by the byte
\* that ends the CSI sequence, and the iac keystroke waits in front of the
\* csi keystroke
C4_Witness ==
  LET evs == Drain(stream)
  IN /\ call.op = "input"
     /\ Len(call.chunk) = 1
     /\ Len(fed) >= 3
     /\ SubSeq(fed, 1, 3) = <<ESC, LBRACKET, tn_IAC>>
     /\ Len(evs) = 2
     /\ evs[1].type = ks_iac
     /\ evs[1].flags = 0
     /\ evs[2].type = ks_csi
     /\ evs[2].flags = 0
     /\ stream.in.state = "kst_null"

----------------------------------------------------------------------------
(* End of file *)

\* C5: once keystroke_get has returned the null keystroke whose value is
\* knull_eof, every later keystroke_get returns that keystroke again,
\* whatever calls of keystroke_input are made in between.
C5_EofMonotone ==
  (eof_seen /\ call.op = "get") =>
     (stroke.type = ks_null /\ stroke.value = knull_eof)

----------------------------------------------------------------------------
(* Stealing *)

\* the call just made passed a steal slot
StealCall == call.op \in {"input", "eof"} /\ call.steal

\* the stream as the call just made would have left it with steal == NULL
NoSteal(s, c) ==
  keystroke_input(s, c.chunk, c.op = "eof", FALSE, UninitKeystroke(0)).stream

Remove(seq, k) == SubSeq(seq, 1, k - 1) \o SubSeq(seq, k + 1, Len(seq))

\* the keystroke k in the steal slot is the keystroke e as keystroke_get
\* returns it, but for the type
SameKeystroke(k, e) ==
  /\ k.value = e.value
  /\ k.flags = e.flags
  /\ k.len = e.len
  /\ \A i \in 1..k.len : i <= keystroke_max_len => k.buf[i] = e.buf[i]

C7_NextAfterStolen_Original ==
  [][(call'.op = "input" /\ call'.steal /\ stole' /\ stream'.fifo # <<>>) =>
       LET Ens == Drain(NoSteal(stream, call'))
           Est == Drain(stream')
       IN \E k \in 1..Len(Ens) :
             /\ SameKeystroke(slot', Ens[k])
             /\ k + 1 <= Len(Ens)
             /\ Head(Est) = Ens[k + 1]
     ]_vars

\* C7: after a call that steals, the keystrokes fetched are, in order, those
\* that would have been fetched had the call not stolen, the stolen one left
\* out; so the first fetched is the one that follows the stolen keystroke
\* when no keystroke precedes it, and the oldest one waiting otherwise.
C7_NextAfterStolen ==
  [][(call'.op = "input" /\ call'.steal /\ stole') =>
       LET Ens == Drain(NoSteal(stream, call'))
           Est == Drain(stream')
       IN \E k \in 1..Len(Ens) :
             /\ SameKeystroke(slot', Ens[k])
             /\ Est = Remove(Ens, k)
             /\ Est # <<>> => Head(Est) = (IF k = 1 THEN Ens[2] ELSE Ens[1])
     ]_vars

\* C7 witness: the first byte of a chunk has been stolen and the keystroke
\* of the second byte is the only one waiting
C7_Witness ==
  /\ call.op = "input"
  /\ call.steal
  /\ stole
  /\ call.chunk = <<51, LBRACKET>>
  /\ slot.value = 51
  /\ stream.fifo = <<LBRACKET>>

\* C8: when a call that passed a steal slot has returned with steal_this
\* set and an ESC or CSI sequence partly received, and the next call passes
\* a steal slot and the byte that ends the sequence well-formed, that
\* keystroke goes to the steal slot and the FIFO is left as it was.
C8_ArmedStealRemembered ==
  [][(/\ call'.op = "input" /\ call'.steal
      /\ Len(call'.chunk) = 1
      /\ ~stream.eof_met
      /\ stream.steal_this
      /\ stream.in.state \in {"kst_esc", "kst_csi"}
      /\ stream.in.state = "kst_csi" => stream.in.len < keystroke_max_len
      /\ TerminatesSequence(stream, call'.chunk[1])) =>
       /\ stole'
       /\ slot'.type = ks_esc
       /\ slot'.value = call'.chunk[1]
       /\ stream'.fifo = stream.fifo
     ]_vars

\* the keystrokes the byte u completes when it follows what s has received,
\* counted from the forms of keystroke: u as data
CompletedData(s, st, u) ==
  CASE st = "kst_null" -> IF u = ESC \/ u = s.CSI THEN 0 ELSE 1
    [] st = "kst_esc" -> IF u = LBRACKET THEN 0 ELSE 1
    [] st = "kst_csi" ->
         IF u >= 32 /\ u <= 63 THEN 0
         ELSE IF u >= 64 /\ u <= 127 THEN 1
         ELSE 1 + (IF u = ESC \/ (u = s.CSI /\ u # tn_IAC) THEN 0 ELSE 1)
    [] st = "kst_iac_option" -> IF s.in.raw[1] = tn_SB THEN 0 ELSE 1
    [] OTHER -> 0

\* u as the byte after an IAC
CompletedCommand(st, u) ==
  IF st = "kst_iac_sub"
    THEN IF u = tn_SE THEN 1 ELSE 1 + (IF u < tn_SB THEN 1 ELSE 0)
    ELSE IF u < tn_SB THEN 1 ELSE 0

Completed(s, u) ==
  LET st == s.in.state
  IN IF st = "kst_iac_option" THEN CompletedData(s, st, u)
     ELSE IF u = tn_IAC THEN (IF s.iac THEN CompletedData(s, st, u) ELSE 0)
     ELSE IF s.iac THEN CompletedCommand(st, u)
     ELSE CompletedData(s, st, u)

RECURSIVE CompletedBy(_, _)
CompletedBy(s, chunk) ==
  IF chunk = <<>> \/ s.eof_met
    THEN 0
    ELSE Completed(s, Head(chunk))
           + CompletedBy(keystroke_input(s, <<Head(chunk)>>, FALSE, FALSE,
                                         UninitKeystroke(0)).stream,
                         Tail(chunk))

\* C9: a call of keystroke_input with bytes adds to the FIFO one record for
\* each keystroke its bytes complete, but for the one it writes to the steal
\* slot, which gets no record.
C9_ExactlyOnce ==
  [][(call'.op = "input" /\ aborted' = "") =>
       Len(Drain(stream')) + (IF stole' THEN 1 ELSE 0)
         = Len(Drain(stream)) + CompletedBy(stream, call'.chunk)
     ]_vars

\* C9 witness: a call has stolen an ESC X while another keystroke waits in
\* the FIFO
C9_Witness ==
  /\ call.op = "input"
  /\ call.steal
  /\ stole
  /\ slot.type = ks_esc
  /\ call.chunk = <<ESC, 51>>
  /\ stream.fifo # <<>>

\* C10: on return from a call that passed a steal slot and stole nothing the
\* slot holds a null keystroke with flags 0 and len 0, whose value is
\* knull_eof if eof_met is set and knull_not_eof if not; after a call that
\* stole, the slot holds the stolen keystroke, not a null one.
C10_SlotNullUnlessStolen ==
  (StealCall /\ aborted = "") =>
     IF stole
       THEN slot.type \in {ks_char, ks_esc}
       ELSE /\ slot.type = ks_null
            /\ slot.flags = 0
            /\ slot.len = 0
            /\ slot.value = (IF stream.eof_met THEN knull_eof ELSE knull_not_eof)

\* C10 witness: bytes offered with a steal slot after EOF: nothing is
\* stolen and the slot says knull_eof
C10_Witness ==
  /\ call.op = "input"
  /\ call.steal
  /\ call.chunk # <<>>
  /\ ~stole
  /\ slot.type = ks_null
  /\ slot.value = knull_eof

----------------------------------------------------------------------------
(* keystroke_get and the tests for empty and EOF *)

\* C11: keystroke_get on an empty FIFO returns 0, sets a null keystroke
\* whose value is knull_eof if eof_met and knull_not_eof if not, and leaves
\* the stream as it was; on a FIFO that is not empty it returns 1 with a
\* keystroke that is not null.  So it yields null with knull_eof exactly
\* when keystroke_stream_eof held, and 0 exactly when keystroke_stream_empty
\* held.
C11_GetOnEmpty ==
  [][(call'.op = "get") =>
       /\ IF stream.fifo = <<>>
            THEN /\ ret' = 0
                 /\ stroke'.type = ks_null
                 /\ stroke'.value = (IF stream.eof_met THEN knull_eof
                                                       ELSE knull_not_eof)
                 /\ stroke'.flags = 0
                 /\ stroke'.len = 0
                 /\ stream' = stream
            ELSE /\ ret' = 1
                 /\ stroke'.type \in {ks_char, ks_esc, ks_csi, ks_iac}
                 /\ Len(stream'.fifo) < Len(stream.fifo)
       /\ (stroke'.type = ks_null /\ stroke'.value = knull_eof)
             <=> keystroke_stream_eof(stream)
       /\ (ret' = 0) <=> keystroke_stream_empty(stream)
     ]_vars

\* C11 witness: keystroke_get has returned 0 and knull_not_eof on a stream
\* that holds part of a keystroke and has not met EOF
C11_Witness ==
  /\ call.op = "get"
  /\ ret = 0
  /\ stroke.type = ks_null
  /\ stroke.value = knull_not_eof
  /\ stream.in.state = "kst_csi"
  /\ ~stream.eof_met

----------------------------------------------------------------------------
(* Keystrokes cut off by EOF *)

\* C12: when EOF is signalled while a CSI sequence is being collected with
\* n parameter bytes, n no more than keystroke_max_len, the call enqueues a
\* csi keystroke that keystroke_get returns with flag broken, value 0, len n
\* and the n parameter bytes in buf.
C12_CsiCutOffByEof ==
  [][(/\ call'.op = "eof"
      /\ ~stream.eof_met
      /\ stream.in.state = "kst_csi"
      /\ stream.in.len <= keystroke_max_len) =>
       LET new == Added(stream, stream')
           n   == stream.in.len
       IN \E i \in 1..Len(new) :
             /\ new[i].type = ks_csi
             /\ new[i].flags = kf_broken
             /\ new[i].value = 0
             /\ new[i].len = n
             /\ new[i].buf = [j \in 1..n |-> stream.in.raw[j]]
     ]_vars

\* the keystrokes of evs that are a Telnet command cut off after its IAC
CutOffIac(evs) ==
  {i \in 1..Len(evs) : /\ evs[i].type = ks_iac
                       /\ evs[i].flags = kf_broken
                       /\ evs[i].len = 0
                       /\ evs[i].value = 0}

\* C13: when EOF is signalled while an IAC waits for its command byte and
\* in.state is kst_null, kst_esc or kst_csi, the call enqueues exactly one
\* iac keystroke with flag broken, len 0 and value 0, and one broken
\* keystroke besides for the ESC or CSI sequence that was being collected.
C13_IacCutOffByEof ==
  [][(/\ call'.op = "eof"
      /\ ~stream.eof_met
      /\ stream.iac
      /\ stream.in.state \in {"kst_null", "kst_esc", "kst_csi"}) =>
       LET new == Added(stream, stream')
       IN /\ Cardinality(CutOffIac(new)) = 1
          /\ Len(new) = (IF stream.in.state = "kst_null" THEN 1 ELSE 2)
          /\ \A i \in 1..Len(new) :
                i \notin CutOffIac(new) =>
                  /\ new[i].type = (IF stream.in.state = "kst_esc" THEN ks_esc
                                                                  ELSE ks_csi)
                  /\ new[i].flags \in {kf_broken, kf_broken + kf_truncated}
     ]_vars

----------------------------------------------------------------------------
(* Ordinary characters *)

\* the byte u neither starts a sequence nor is an IAC on the stream s
Ordinary(s, u) == u \notin {ESC, s.CSI, tn_IAC}

CharEvent(u) ==
  [type |-> ks_char, value |-> u, flags |-> 0, len |-> 1, buf |-> <<u>>]

\* C14: on a stream that is between keystrokes, bytes other than ESC, the
\* CSI byte and IAC, given without a steal slot, add one keystroke each for
\* keystroke_get, in the order of the bytes: type char, value and buf[0] the
\* byte, flags 0, len 1; bytes below 0x80 and bytes from 0x80 up alike.
C14_CharRoundTrip ==
  [][(/\ call'.op = "input" /\ ~call'.steal
      /\ ~stream.eof_met
      /\ stream.in.state = "kst_null" /\ ~stream.iac
      /\ \A i \in 1..Len(call'.chunk) : Ordinary(stream, call'.chunk[i])) =>
       /\ Added(stream, stream')
            = [i \in 1..Len(call'.chunk) |-> CharEvent(call'.chunk[i])]
       /\ stream'.in.state = "kst_null"
       /\ ~stream'.iac
     ]_vars

\* C14 witness: a byte above 0x7F and a byte below 0x80 have been given in
\* one call and wait as two char keystrokes
C14_Witness ==
  /\ call.op = "input"
  /\ ~call.steal
  /\ call.chunk = <<tn_SE, 51>>
  /\ stream.in.state = "kst_null"
  /\ Drain(stream) = <<CharEvent(tn_SE), CharEvent(51)>>
  /\ stream.fifo = <<kf_compound + ks_char, 1, tn_SE, 51>>

----------------------------------------------------------------------------
(* keystroke_stream_set_eof *)

\* the stream is at EOF with nothing to fetch and nothing partly received
Discarded(s) ==
  /\ s.fifo = <<>>
  /\ s.eof_met
  /\ ~s.iac
  /\ s.in.state = "kst_null"
  /\ s.pushed_in.state = "kst_null"
  /\ keystroke_stream_empty(s)
  /\ keystroke_stream_eof(s)

\* C15: keystroke_stream_set_eof leaves the FIFO empty, eof_met set,
\* steal_this and iac clear, in.state and pushed_in.state kst_null, so that
\* keystroke_stream_empty and keystroke_stream_eof hold; from then on every
\* call leaves the stream so, and every keystroke_get returns 0 with null
\* and knull_eof: nothing that was in the FIFO or partly received is ever
\* returned.
C15_SetEofDiscards ==
  [][/\ call'.op = "set_eof" => (Discarded(stream') /\ ~stream'.steal_this)
     /\ Discarded(stream) =>
          /\ Discarded(stream')
          /\ call'.op = "get" =>
                (ret' = 0 /\ stroke'.type = ks_null /\ stroke'.value = knull_eof)
    ]_vars

\* C15 witness: keystroke_stream_set_eof has been called (eof_met with no
\* EOF signal given), bytes have been given since, and the FIFO is empty
C15_Witness ==
  /\ call.op = "input"
  /\ call.chunk # <<>>
  /\ stream.eof_met
  /\ neof = 0
  /\ nfed > Len(call.chunk)
  /\ Discarded(stream)

----------------------------------------------------------------------------
(* After EOF *)

\* C16: between calls, eof_met implies that in.state and pushed_in.state are
\* kst_null; and a call of keystroke_input with bytes made while eof_met is
\* set leaves the FIFO, in, pushed_in and iac as they were.
C16_EofMetIdle ==
  [][/\ stream'.eof_met =>
          (stream'.in.state = "kst_null" /\ stream'.pushed_in.state = "kst_null")
     /\ (call'.op = "input" /\ stream.eof_met) =>
          /\ stream'.fifo = stream.fifo
          /\ stream'.in = stream.in
          /\ stream'.pushed_in = stream.pushed_in
          /\ stream'.iac = stream.iac
          /\ ~stole'
    ]_vars

\* C16 witness: bytes have been given after an EOF signal, while an iac
\* keystroke and then an esc or csi keystroke wait in the FIFO
C16_Witness ==
  /\ call.op = "input"
  /\ call.chunk # <<>>
  /\ stream.eof_met
  /\ neof > 0
  /\ Len(Drain(stream)) = 2
  /\ Drain(stream)[1].type = ks_iac
  /\ Drain(stream)[2].type \in {ks_esc, ks_csi}
  /\ stream.in.state = "kst_null"

----------------------------------------------------------------------------
(* zabort and assert *)

\* C17: no call of keystroke_input, keystroke_get or
\* keystroke_stream_set_eof reaches a zabort or a failing assert, and none
\* waits in the FIFO for a later keystroke_get: in.state is never kst_char,
\* in.len is 1 where a command's option is awaited, in.raw[0] is SB while a
\* subnegotiation is collected.
C17_NoAbort ==
  /\ aborted = ""
  /\ \A i \in 1..Len(Drain(stream)) : "value" \in DOMAIN Drain(stream)[i]
  /\ stream.in.state \in {"kst_null", "kst_esc", "kst_csi",
                          "kst_iac_option", "kst_iac_sub"}
  /\ stream.in.state = "kst_iac_option" => (stream.in.len = 1 /\ ~stream.iac)
  /\ stream.in.state = "kst_iac_sub" => stream.in.raw[1] = tn_SB

\* C17 witness: a subnegotiation that interrupted a CSI sequence has filled
\* in.raw, and a keystroke_input call with a steal slot has returned
C17_Witness ==
  /\ aborted = ""
  /\ call.op = "input"
  /\ call.steal
  /\ stream.in.state = "kst_iac_sub"
  /\ stream.in.len >= keystroke_max_len
  /\ stream.pushed_in.state = "kst_csi"

----------------------------------------------------------------------------
(* The raw buffers *)

\* the byte u is added to what s is collecting: a parameter byte of a CSI
\* sequence, or a byte of a subnegotiation
Accumulates(s, u) ==
  /\ ~s.eof_met
  /\ \/ s.in.state = "kst_csi" /\ ~s.iac /\ u >= 32 /\ u <= 63
     \/ s.in.state = "kst_iac_sub" /\ (s.iac <=> u = tn_IAC)

\* C18: however long a CSI sequence or a subnegotiation grows, every write
\* to in.raw is at an index below keystroke_max_len, so in.raw and
\* pushed_in.raw never hold more; in.len counts every byte added, those past
\* keystroke_max_len too, which leave in.raw as it was.
C18_BoundedAccumulation ==
  [][/\ DOMAIN stream'.in.raw = 1..keystroke_max_len
     /\ DOMAIN stream'.pushed_in.raw = 1..keystroke_max_len
     /\ (call'.op = "input" /\ Len(call'.chunk) = 1
           /\ Accumulates(stream, call'.chunk[1])) =>
          /\ stream'.in.len = stream.in.len + 1
          /\ stream'.in.state = stream.in.state
          /\ stream.in.len >= keystroke_max_len => stream'.in.raw = stream.in.raw
          /\ stream.in.len < keystroke_max_len =>
               stream'.in.raw = [stream.in.raw EXCEPT ![stream.in.len + 1] =
                                                         call'.chunk[1]]
    ]_vars

\* C18 witness: a CSI sequence has had more parameter bytes than in.raw
\* holds
C18_Witness ==
  /\ call.op = "input"
  /\ stream.in.state = "kst_csi"
  /\ stream.in.len > keystroke_max_len
  /\ stream.in.raw = [i \in 1..keystroke_max_len |-> 51]

----------------------------------------------------------------------------
(* The CSI byte *)

MaxInputC == 5

\* A caller that creates the stream with no CSI byte, with ESC or with 0x9B
\* as the CSI byte, feeds bytes without stealing, signals EOF once, then
\* fetches.
BytesC == {0, ESC, LBRACKET, 51, CSI_9B, tn_SE, tn_IAC}

InitC == InitWith({0, ESC, CSI_9B})

NextC ==
  \/ \E chunk \in Chunks(BytesC, MaxChunk) \ {<<>>} :
        neof = 0 /\ Input(chunk, FALSE, TRUE, MaxInputC)
  \/ neof = 0 /\ InputEof(FALSE)
  \/ neof > 0 /\ Get(TRUE)

SpecC == InitC /\ [][NextC]_vars

\* the stream after s has been given the byte u with no steal slot
AfterByte(s, u) ==
  keystroke_input(s, <<u>>, FALSE, FALSE, NoKeystroke).stream

\* the byte u, given to s, is the CSI byte starting a sequence: it is met
\* between keystrokes, or it cuts a CSI sequence short and starts the next
StartsCsi(s, u) ==
  /\ u = s.CSI
  /\ s.CSI # ESC
  /\ ~s.iac
  /\ s.in.state \in {"kst_null", "kst_csi"}

\* the bytes B, to be given to s, with ESC [ in place of each CSI byte that
\* starts a sequence
RECURSIVE WithEscBracket(_, _)
WithEscBracket(s, B) ==
  IF B = <<>>
    THEN <<>>
    ELSE (IF StartsCsi(s, Head(B)) THEN <<ESC, LBRACKET>> ELSE <<Head(B)>>)
           \o WithEscBracket(AfterByte(s, Head(B)), Tail(B))

\* the csi keystrokes among evs
CsiEvents(evs) == {i \in 1..Len(evs) : evs[i].type = ks_csi}

\* C19: on a stream whose CSI byte is not ESC, the keystrokes fetched for an
\* input are those fetched for the same input with ESC [ in place of each
\* CSI byte that starts a sequence; on a stream created with 0 or ESC as the
\* CSI byte no single byte takes a stream that is between keystrokes into a
\* CSI sequence, nor adds a csi keystroke.
C19_CsiByteIsEscBracket ==
  /\ stream.CSI # ESC =>
       AllEvents = Drain(FedAtOnce(stream.CSI,
                                   WithEscBracket(keystroke_stream_new(stream.CSI), fed),
                                   neof > 0))
  /\ (stream.CSI = ESC /\ neof = 0 /\ fed # <<>>) =>
       LET before == FedAtOnce(ESC, SubSeq(fed, 1, Len(fed) - 1), FALSE)
       IN before.in.state = "kst_null" =>
            /\ stream.in.state # "kst_csi"
            /\ Cardinality(CsiEvents(Drain(stream)))
                 = Cardinality(CsiEvents(Drain(before)))

\* C19 witness: the CSI byte has started two sequences, the second after a
\* complete first one, and both have been fetched after EOF
C19_Witness ==
  /\ stream.CSI = CSI_9B
  /\ fed = <<CSI_9B, 51, LBRACKET, CSI_9B, LBRACKET>>
  /\ neof > 0
  /\ Len(got) = 2
  /\ got[1].type = ks_csi /\ got[1].len = 1 /\ got[1].value = LBRACKET
  /\ got[2].type = ks_csi /\ got[2].len = 0 /\ got[2].flags = 0
  /\ stream.fifo = <<>>

----------------------------------------------------------------------------
(* stream->pushed_in *)

LongIac(s) == s.in.state \in {"kst_iac_option", "kst_iac_sub"}

\* the byte u ends the long Telnet command s is collecting, well-formed
EndsLongIac(s, u) ==
  \/ s.in.state = "kst_iac_option" /\ s.in.raw[1] # tn_SB
  \/ s.in.state = "kst_iac_sub" /\ s.iac /\ u = tn_SE

\* the byte u, not SE and not IAC, follows an IAC in a subnegotiation and so
\* breaks it
BreaksLongIac(s, u) ==
  s.in.state = "kst_iac_sub" /\ s.iac /\ u \notin {tn_SE, tn_IAC}

----------------------------------------------------------------------------
(* CSI sequences, whole and truncated *)

\* the number of bytes that introduce a CSI sequence at the head of B on
\* the stream s: 1 for the CSI byte, 2 for ESC [, 0 if there is none
Introducer(s, B) ==
  IF Len(B) >= 1 /\ B[1] = s.CSI /\ s.CSI # ESC THEN 1
  ELSE IF Len(B) >= 2 /\ B[1] = ESC /\ B[2] = LBRACKET THEN 2
  ELSE 0

\* B is one whole CSI sequence on the stream s: introducer, parameter bytes
\* 0x20..0x3F, and a terminator 0x40..0x7F
WholeCsi(s, B) ==
  LET k == Introducer(s, B)
  IN /\ k > 0
     /\ Len(B) > k
     /\ \A i \in (k + 1)..(Len(B) - 1) : B[i] >= 32 /\ B[i] <= 63
     /\ B[Len(B)] >= 64 /\ B[Len(B)] <= 127

\* the keystroke for the whole CSI sequence B, from the forms of keystroke
CsiKeystroke(s, B) ==
  LET k == Introducer(s, B)
      n == Len(B) - k - 1
      m == IF n <= keystroke_max_len - 1 THEN n ELSE keystroke_max_len - 1
  IN [type  |-> ks_csi,
      value |-> B[Len(B)],
      flags |-> IF n <= keystroke_max_len - 1 THEN 0 ELSE kf_truncated,
      len   |-> m,
      buf   |-> [i \in 1..m |-> B[k + i]]]

\* C21: a CSI sequence of n parameter bytes and a terminator X is fetched
\* as a csi keystroke with value X: with flags 0, len n and the n
\* parameters if n is below keystroke_max_len; with truncated set, broken
\* clear, len keystroke_max_len - 1 and the first keystroke_max_len - 1
\* parameters if not.
C21_TruncatedCsiKeepsTerminator ==
  WholeCsi(stream, fed) => AllEvents = <<CsiKeystroke(stream, fed)>>

\* C21 witness: a CSI sequence with more parameters than fit has been given
\* in more than one call, and fetched
C21_Witness ==
  /\ WholeCsi(stream, fed)
  /\ Len(fed) - Introducer(stream, fed) - 1 > keystroke_max_len
  /\ call.op = "get"
  /\ Len(got) = 1
  /\ got[1].flags = kf_truncated
  /\ got[1].value = LBRACKET
  /\ got[1].len = keystroke_max_len - 1

\* the first position of B after its k introducing bytes that holds no
\* parameter byte, Len(B) + 1 if there is none
RECURSIVE ParamsEnd(_, _)
ParamsEnd(B, j) ==
  IF j > Len(B) \/ B[j] < 32 \/ B[j] > 63 THEN j ELSE ParamsEnd(B, j + 1)

\* B starts a CSI sequence on the stream s that a byte outside 0x20..0x7F
\* breaks: a byte that is not IAC, or the data byte 0xFF given as IAC IAC
BrokenCsi(s, B) ==
  LET k == Introducer(s, B)
      j == ParamsEnd(B, k + 1)
  IN /\ k > 0
     /\ j <= Len(B)
     /\ B[j] < 32 \/ B[j] > 127
     /\ B[j] = tn_IAC => (j + 1 <= Len(B) /\ B[j + 1] = tn_IAC)

\* the keystroke for the broken CSI sequence at the head of B
BrokenCsiKeystroke(s, B) ==
  LET k == Introducer(s, B)
      n == ParamsEnd(B, k + 1) - k - 1
      m == IF n <= keystroke_max_len - 1 THEN n ELSE keystroke_max_len - 1
  IN [type  |-> ks_csi,
      value |-> 0,
      flags |-> kf_broken + (IF n <= keystroke_max_len - 1 THEN 0 ELSE kf_truncated),
      len   |-> m,
      buf   |-> [i \in 1..m |-> B[k + i]]]

\* C22: a byte outside 0x20..0x7F met in a CSI sequence, the data byte 0xFF
\* of IAC IAC too, ends the sequence as a csi keystroke with flag broken and
\* value 0 that carries the parameters collected; the keystrokes after it
\* are those of the input from that byte on, given to a stream that is
\* between keystrokes.
C22_MalformedCsiRecovery ==
  BrokenCsi(stream, fed) =>
    LET j == ParamsEnd(fed, Introducer(stream, fed) + 1)
    IN AllEvents = <<BrokenCsiKeystroke(stream, fed)>>
                     \o Drain(FedAtOnce(stream.CSI, SubSeq(fed, j, Len(fed)), neof > 0))

\* C22 witness: IAC IAC has broken a CSI sequence with one parameter, and
\* the char 0xFF and the char after it follow the broken csi keystroke
C22_Witness ==
  /\ stream.CSI = CSI_9B
  /\ fed = <<CSI_9B, 51, tn_IAC, tn_IAC, 51>>
  /\ BrokenCsi(stream, fed)
  /\ Len(AllEvents) = 3
  /\ AllEvents[1].type = ks_csi /\ AllEvents[1].flags = kf_broken
  /\ AllEvents[1].len = 1
  /\ AllEvents[2] = CharEvent(tn_IAC)
  /\ AllEvents[3] = CharEvent(51)

----------------------------------------------------------------------------
(* The end of a subnegotiation *)

\* the iac keystroke for the long command that d holds, broken or not
LongIacKeystroke(d, broken) ==
  LET m == IF d.len <= keystroke_max_len THEN d.len ELSE keystroke_max_len
  IN [type  |-> ks_iac,
      value |-> d.raw[1],
      flags |-> (IF broken THEN kf_broken ELSE 0)
                  + (IF d.len <= keystroke_max_len THEN 0 ELSE kf_truncated),
      len   |-> m,
      buf   |-> [i \in 1..m |-> d.raw[i]]]

\* the iac keystroke for the two byte command IAC u
ShortIacKeystroke(u) ==
  [type |-> ks_iac, value |-> u, flags |-> 0, len |-> 1, buf |-> <<u>>]

\* C23: in a subnegotiation, IAC SE enqueues the iac keystroke of SB, the
\* option and the data, not broken; IAC X with X neither SE nor IAC enqueues
\* that keystroke with flag broken, brings back the interrupted sequence,
\* and is then taken as a command of its own from there: a two byte command
\* enqueued at once if X is below SB, the start of a long command if not.
C23_SubnegotiationEnd ==
  [][(/\ call'.op = "input" /\ Len(call'.chunk) = 1
      /\ ~stream.eof_met
      /\ stream.in.state = "kst_iac_sub"
      /\ stream.iac
      /\ call'.chunk[1] # tn_IAC) =>
       LET u   == call'.chunk[1]
           new == Added(stream, stream')
       IN /\ stream.in.raw[1] = tn_SB
          /\ ~stream'.iac
          /\ u = tn_SE =>
               /\ new = <<LongIacKeystroke(stream.in, FALSE)>>
               /\ stream'.in = stream.pushed_in
               /\ stream'.pushed_in.state = "kst_null"
          /\ (u # tn_SE /\ u < tn_SB) =>
               /\ new = <<LongIacKeystroke(stream.in, TRUE), ShortIacKeystroke(u)>>
               /\ stream'.in = stream.pushed_in
               /\ stream'.pushed_in.state = "kst_null"
          /\ u >= tn_SB =>
               /\ new = <<LongIacKeystroke(stream.in, TRUE)>>
               /\ stream'.in.state = "kst_iac_option"
               /\ stream'.in.len = 1
               /\ stream'.in.raw[1] = u
               /\ stream'.pushed_in = stream.pushed_in
     ]_vars

\* C23 witness: IAC SB, an option and IAC WILL have been given after ESC:
\* the broken iac keystroke waits, the new command awaits its option over
\* the ESC sequence
C23_Witness ==
  /\ fed = <<ESC, tn_IAC, tn_SB, 51, tn_IAC, tn_WILL>>
  /\ Len(call.chunk) = 1
  /\ Drain(stream) = <<[type |-> ks_iac, value |-> tn_SB, flags |-> kf_broken,
                         len |-> 2, buf |-> <<tn_SB, 51>>]>>
  /\ stream.in.state = "kst_iac_option"
  /\ stream.in.raw[1] = tn_WILL
  /\ stream.pushed_in.state = "kst_esc"

----------------------------------------------------------------------------
(* IAC IAC, and 0xFF as an option *)

\* a call that gives the single byte IAC, with nothing to steal into
OneIac ==
  /\ call'.op = "input" /\ call'.chunk = <<tn_IAC>> /\ ~call'.steal
  /\ ~stream.eof_met

----------------------------------------------------------------------------
(* EOF in a long command that interrupts a sequence *)

\* C25: at EOF with a long Telnet command being collected over a partial ESC
\* or csi sequence, the loop goes round twice and no more: the iac keystroke
\* of the command bytes so far is enqueued broken, then the esc or csi
\* keystroke broken, and both descriptors are left idle.
C25_EofFlushNested ==
  [][(/\ call'.op = "eof"
      /\ stream.in.state \in {"kst_iac_option", "kst_iac_sub"}
      /\ stream.pushed_in.state \in {"kst_esc", "kst_csi"}) =>
       LET new == Added(stream, stream')
       IN /\ keystroke_input_eof_passes(stream) = 2
          /\ Len(new) = 2
          /\ new[1] = LongIacKeystroke(stream.in, TRUE)
          /\ new[2].type = (IF stream.pushed_in.state = "kst_esc" THEN ks_esc
                                                                   ELSE ks_csi)
          /\ new[2].flags \in {kf_broken, kf_broken + kf_truncated}
          /\ stream'.in.state = "kst_null"
          /\ stream'.pushed_in.state = "kst_null"
          /\ stream'.eof_met
     ]_vars

\* C25 witness: EOF has come with IAC WILL awaiting its option over a csi
\* sequence: the broken iac keystroke is followed by the broken csi one
C25_Witness ==
  /\ call.op = "eof"
  /\ Len(Drain(stream)) = 2
  /\ Drain(stream)[1] = [type |-> ks_iac, value |-> tn_WILL, flags |-> kf_broken,
                          len |-> 1, buf |-> <<tn_WILL>>]
  /\ Drain(stream)[2].type = ks_csi
  /\ Drain(stream)[2].flags = kf_broken
  /\ stream.in.state = "kst_null"
  /\ stream.pushed_in.state = "kst_null"

----------------------------------------------------------------------------
(* The byte loop comes to its end *)

----------------------------------------------------------------------------
(* Longer chunks, with and without a steal slot *)

MaxChunkD == 5
MaxInputD == 5

BytesD == {ESC, LBRACKET, 51, CSI_9B, tn_SE, tn_IAC}

InitD == InitWith({CSI_9B})

\* the length of the longest chunk that may still be given
RoomD == IF MaxInputD - nfed < MaxChunkD THEN MaxInputD - nfed ELSE MaxChunkD

NextD ==
  \/ \E chunk \in Chunks(BytesD, RoomD) \ {<<>>} :
        Input(chunk, TRUE, FALSE, MaxInputD)
  \/ \E chunk \in Chunks(BytesD, RoomD) \ {<<>>} :
        Input(chunk, FALSE, FALSE, MaxInputD)

SpecD == InitD /\ [][NextD]_vars

\* an ESC or csi sequence is partly received, perhaps under a long command
InFlight(s) ==
  \/ s.in.state \in {"kst_esc", "kst_csi"}
  \/ s.pushed_in.state \in {"kst_esc", "kst_csi"}

\* the keystrokes of evs, those a call completes, that the call may steal:
\* char, esc and csi ones with flags 0, but for the one that was partly
\* received when the call was made, which is the first not an iac one
Stealable(s, evs) ==
  LET data == {i \in 1..Len(evs) : evs[i].type # ks_iac}
      old  == IF InFlight(s)
                THEN {i \in data : \A j \in data : i <= j}
                ELSE {}
  IN {i \in data \ old : evs[i].flags = 0}

\* C27: in a call with a steal slot made between keystrokes, the keystrokes
\* completed broken or truncated, and the iac ones, are put in the FIFO in
\* their order until a char, esc or csi keystroke is completed with flags 0:
\* that one is written to the steal slot; while there has been none, nothing
\* is stolen and steal_this stays set.
C27_RefusalKeepsRequest ==
  [][(/\ call'.op = "input" /\ call'.steal
      /\ ~stream.eof_met
      /\ stream.in.state = "kst_null") =>
       \A Ens \in {Added(stream, NoSteal(stream, call'))} :
       \A W \in {Stealable(stream, Ens)} :
         IF W = {}
           THEN /\ Added(stream, stream') = Ens
                /\ ~stole'
                /\ slot'.type = ks_null
                /\ stream'.steal_this
           ELSE \A k \in {i \in W : \A j \in W : i <= j} :
                  /\ stole'
                  /\ SameKeystroke(slot', Ens[k])
                  /\ Added(stream, stream') = Remove(Ens, k)
                  /\ \A i \in 1..(k - 1) :
                        \/ Ens[i].type = ks_iac
                        \/ Ens[i].flags # 0
     ]_vars

\* C27 witness: a csi sequence with too many parameters and a character
\* have been given in one call with a steal slot: the csi keystroke waits in
\* the FIFO, truncated, and the character is in the slot
C27_Witness ==
  /\ call.op = "input" /\ call.steal
  /\ call.chunk = <<CSI_9B, 51, 51, LBRACKET, 51>>
  /\ stole
  /\ slot.type = ks_char /\ slot.value = 51
  /\ Len(Drain(stream)) = 1
  /\ Drain(stream)[1].type = ks_csi
  /\ Drain(stream)[1].flags = kf_truncated
  /\ Drain(stream)[1].value = LBRACKET

\* C28: a call with a steal slot leaves alone the keystroke that was partly
\* received when it was made: that one is put in the FIFO and it is the
\* first char, esc or csi keystroke with flags 0 completed after it that is
\* stolen; and once a keystroke has been stolen steal_this is clear and all
\* the keystrokes completed after it in the call are put in the FIFO.
C28_StealBetweenKeystrokes ==
  [][(/\ call'.op = "input" /\ call'.steal
      /\ ~stream.eof_met) =>
       \A Ens \in {Added(stream, NoSteal(stream, call'))} :
       \A new \in {Added(stream, stream')} :
       \A W \in {Stealable(stream, Ens)} :
         /\ InFlight(stream) =>
              \A o \in 1..Len(Ens) :
                (Ens[o].type # ks_iac
                   /\ \A j \in 1..(o - 1) : Ens[j].type = ks_iac) =>
                  /\ Len(new) >= o
                  /\ SubSeq(new, 1, o) = SubSeq(Ens, 1, o)
                  /\ stole' =>
                       \E k \in (o + 1)..Len(Ens) :
                          /\ SameKeystroke(slot', Ens[k])
                          /\ Ens[k].flags = 0
                          /\ Ens[k].type # ks_iac
                          /\ new = Remove(Ens, k)
                          /\ \A i \in (o + 1)..(k - 1) :
                                Ens[i].type = ks_iac \/ Ens[i].flags # 0
         /\ stole' <=> W # {}
         /\ stole' =>
              /\ ~stream'.steal_this
              /\ Len(new) = Len(Ens) - 1
              /\ \A k \in {i \in W : \A j \in W : i <= j} :
                    SubSeq(new, k, Len(new)) = SubSeq(Ens, k + 1, Len(Ens))
         /\ ~stole' => new = Ens
     ]_vars

\* C28 witness: three characters have been given in a call with a steal
\* slot made after an ESC: the esc keystroke of the first is in the FIFO,
\* the second is in the slot, and the third is in the FIFO
C28_Witness ==
  /\ call.op = "input" /\ call.steal
  /\ call.chunk = <<51, 51, 51>>
  /\ nfed = 4
  /\ stole
  /\ slot.type = ks_char /\ slot.value = 51
  /\ ~stream.steal_this
  /\ Drain(stream) = <<[type |-> ks_esc, value |-> 51, flags |-> 0,
                         len |-> 1, buf |-> <<51>>],
                       CharEvent(51)>>

----------------------------------------------------------------------------
(* The stolen csi keystroke *)

\* C29: a csi keystroke with n parameter bytes that is stolen is in the slot
\* as type esc, with its terminator as value, flags 0, len n, the parameter
\* bytes in buf[0..n-1] and 0 in buf[n], as keystroke_get would have
\* returned it.
C29_StolenCsiNullTerminated ==
  [][(/\ call'.op = "input" /\ call'.steal
      /\ ~stream.eof_met
      /\ stole') =>
       \A Ens \in {Added(stream, NoSteal(stream, call'))} :
       \A W \in {Stealable(stream, Ens)} :
       \A k \in {i \in W : \A j \in W : i <= j} :
         Ens[k].type = ks_csi =>
           LET n == Ens[k].len
           IN /\ slot'.type = ks_esc
              /\ slot'.value = Ens[k].value
              /\ slot'.flags = 0
              /\ slot'.len = n
              /\ \A i \in 1..n : slot'.buf[i] = Ens[k].buf[i]
              /\ n + 1 <= keystroke_buf_size => slot'.buf[n + 1] = 0
     ]_vars

\* C30: stealing a csi keystroke writes no byte of buf at an index past the
\* last one, keystroke_buf_size - 1.
C30_StealWithinBuffer ==
  [][(call'.op = "input" /\ call'.steal /\ stole') =>
       /\ slot'.past = <<>>
       /\ DOMAIN slot'.buf = 1..keystroke_buf_size
     ]_vars

----------------------------------------------------------------------------
(* The shape of the keystrokes that are not broken *)

\* the keystroke e, as keystroke_get returns it, has the shape of its type
WellShaped(e) ==
  /\ (e.type = ks_csi /\ (e.flags \div kf_broken) % 2 = 0) =>
        /\ e.value >= 64 /\ e.value <= 127
        /\ \A i \in 1..e.len : e.buf[i] >= 32 /\ e.buf[i] <= 63
  /\ (e.type = ks_iac /\ (e.flags \div kf_broken) % 2 = 0) =>
        \/ e.len = 1 /\ e.value < tn_SB
        \/ e.len = 2 /\ e.value > tn_SB /\ e.value < tn_IAC
        \/ e.value = tn_SB /\ e.len >= 2

\* C31: every csi keystroke that keystroke_get returns, or will return from
\* the FIFO, without flag broken has its value in 0x40..0x7F and its len
\* bytes of buf in 0x20..0x3F; every iac one without flag broken is a two
\* byte command (len 1, value below SB), a command with its option (len 2,
\* value WILL..DONT) or a subnegotiation (value SB, len 2 or more).
C31_WellFormedShape ==
  /\ \A i \in 1..Len(got) : WellShaped(got[i])
  /\ \A D \in {Drain(stream)} :
       \A i \in 1..Len(D) : "value" \in DOMAIN D[i] => WellShaped(D[i])

\* C31 witness: keystroke_get has returned a csi keystroke with one
\* parameter and a two byte command, neither of them broken
C31_Witness ==
  /\ \E i \in 1..Len(got) :
        /\ got[i].type = ks_csi /\ got[i].flags = 0
        /\ got[i].value = LBRACKET
        /\ got[i].len = 1 /\ got[i].buf[1] = 51
  /\ \E i \in 1..Len(got) :
        /\ got[i].type = ks_iac /\ got[i].flags = 0
        /\ got[i].value = tn_SE /\ got[i].len = 1

====
